---- MODULE Spec2Model ----
(***************************************************************************)
(* Verification model of sunclan93/strong-python.                          *)
(*                                                                         *)
(* Part 1 (SpecCache, SpecCacheLru): the caching decorator                 *)
(* PerformanceMonitor.cache of src/day3/day3.py, the only bounded cache of *)
(* day3.py (the file holds no LRUCache class, no get/put methods and no    *)
(* linked list).  The decorator is a closure over two dicts, cache_dict    *)
(* (insertion ordered) and cache_times; its wrapper looks the key up and,  *)
(* on a miss, calls the wrapped function and stores the result, evicting   *)
(* next(iter(cache_dict)) when the dict is full.  The wrapped function may *)
(* call the wrapper again (calculate_fibonacci in test_performance_monitor *)
(* does), so a call is split where the function runs: Call enters the      *)
(* wrapper, Return and FuncRaises leave it.  A lookup that hits is the     *)
(* cache's "get", the store that ends a miss is its "put".                 *)
(*                                                                         *)
(* Part 2 (SpecPerm): the permission decorators of src/day3/quest1.py.     *)
(***************************************************************************)
EXTENDS Integers, Sequences, FiniteSets, TLC

\* ------------------------------------------------------------------ bounds
NumKeys == 3        \* distinct argument tuples the wrapped function is called with
NumVals == 2        \* distinct results the wrapped function returns
MaxSize == 2        \* largest max_size a cache is built with
MaxTime == 2        \* time.time() reads 0..MaxTime
MaxDepth == 2       \* how deep the wrapped function re-enters the wrapper
NumIds == 2         \* user ids and resource owner ids are 1..NumIds
MaxLog == 1         \* decorated functions are called while audit_log is shorter
MaxUserRoles == 1   \* roles a user holds
MaxAskedRoles == 1  \* roles a decorator asks for
MaxTasks == 2       \* tasks a TaskManager creates under the storage blocks
MaxRichTasks == 1   \* tasks created where every field of a task varies
MaxStamp == 1       \* datetime.now() reads 0..MaxStamp
MaxCalls == 3       \* constructor calls made on the singleton classes

Keys == 1..NumKeys
Values == 1..NumVals
Times == 0..MaxTime

VARIABLES
    max_size,       \* decorator argument max_size
    ttl,            \* decorator argument ttl; 0 stands for None (any falsy ttl)
    cache_dict,     \* the closure's cache_dict: sequence of [key, value], oldest first
    cache_times,    \* the closure's cache_times: function key -> time of the store
    now,            \* the latest value time.time() returned
    stack,          \* wrapper calls whose func is running: [key, current_time]
    last,           \* history: the last wrapper step, its key, result and eviction
    track,          \* history: whether the touch order is recorded in this run
    touched,        \* history: keys by last touch (hit or store), latest first
    current_user,   \* AuthContext._current_user: a User or NoUser (None)
    audit_log,      \* PermissionChecker.audit_log: sequence of [username, success]
    result,         \* history: the last call of a decorated function and how it ended
    tasks,          \* TaskManager.tasks: function task id -> Task
    ids_made,       \* how many task ids uuid4 has produced
    storage_file,   \* the file at storage_path: [exists, tasks], tasks as dicts
    backup_file,    \* the file at storage_path + ".backup"
    block,          \* the caller's own `with DataStorageContext(...)` block
    task_result,    \* history: the last TaskManager operation and how it ended
    new_manager,    \* a second TaskManager built on the same storage_path
    instances,      \* SingletonMeta._instances: function class -> object
    objects,        \* the objects made so far: sequence of [cls, attrs]
    refs,           \* the references the callers hold, in the order they got them
    sing_result     \* history: the last singleton operation

cacheVars == <<max_size, ttl, cache_dict, cache_times, now, stack, last, track, touched>>

permVars == <<current_user, audit_log, result>>

taskVars == <<tasks, ids_made, storage_file, backup_file, block, task_result, new_manager>>

singVars == <<instances, objects, refs, sing_result>>

vars == <<cacheVars, permVars, taskVars, singVars>>

\* --------------------------------------------------------- dict operations
\* cache_dict as Python keeps it: insertion ordered, one entry per key.
DictKeys(d) == {d[i].key : i \in DOMAIN d}

KeyList(d) == [i \in DOMAIN d |-> d[i].key]

IndexOf(d, k) == CHOOSE i \in DOMAIN d : d[i].key = k

\* cache_dict[key]
DictGet(d, k) == d[IndexOf(d, k)].value

\* cache_dict.pop(key, None)
DictPop(d, k) ==
    LET keep(e) == e.key # k IN SelectSeq(d, keep)

\* cache_dict[key] = result: a present key keeps its place, a new one goes last
DictSet(d, k, v) ==
    IF k \in DictKeys(d)
    THEN [d EXCEPT ![IndexOf(d, k)].value = v]
    ELSE Append(d, [key |-> k, value |-> v])

\* next(iter(cache_dict))
OldestKey(d) == d[1].key

\* cache_times.pop(key, None)
TimesPop(t, k) == [x \in (DOMAIN t) \ {k} |-> t[x]]

\* cache_times[key] = current_time
TimesSet(t, k, v) == [x \in (DOMAIN t) \cup {k} |-> IF x = k THEN v ELSE t[x]]

\* history: k becomes the latest touched key
Touch(s, k) ==
    LET keep(x) == x # k
    IN IF track THEN <<k>> \o SelectSeq(s, keep) ELSE s

\* ------------------------------------------------------------ the wrapper
\* the TTL check at the wrapper's entry drops an expired entry of key
Expired(k, current_time) ==
    /\ ttl # 0
    /\ k \in DOMAIN cache_times
    /\ current_time - cache_times[k] > ttl

DictAfterTtl(k, current_time) ==
    IF Expired(k, current_time) THEN DictPop(cache_dict, k) ELSE cache_dict

TimesAfterTtl(k, current_time) ==
    IF Expired(k, current_time) THEN TimesPop(cache_times, k) ELSE cache_times

\* the size check before the store
NeedsEvictionStrict(d) == Len(d) > max_size

NeedsEviction(d) == Len(d) >= max_size

DictAfterEvict(d) ==
    IF NeedsEviction(d) THEN DictPop(d, OldestKey(d)) ELSE d

TimesAfterEvict(d, t) ==
    IF NeedsEviction(d) THEN TimesPop(t, OldestKey(d)) ELSE t

\* what a hit does to cache_dict: it reads cache_dict[key] and nothing else
DictAfterHitRefresh(d, k) ==
    Append(DictPop(d, k), [key |-> k, value |-> DictGet(d, k)])

DictAfterHit(d, k) == d

\* Without a ttl the wrapped function re-enters the wrapper up to MaxDepth deep.
\* With a ttl, and where the touch order of a single caller's calls is recorded,
\* the model follows calls that do not nest.
DepthLimit == IF ttl = 0 /\ ~track THEN MaxDepth ELSE 1

\* key and result 0: no key, no value
NoLast == [op |-> "none", key |-> 0, result |-> 0, evicted |-> {}]

\* None as the current user: a record no User equals (ids start at 1)
NoUser == [id |-> 0, roles |-> {}, permissions |-> {}, is_active |-> FALSE]

NoResult == [call |-> "none", outcome |-> "none", permission |-> "None",
             allow_owner |-> FALSE, owner_id |-> 0, others |-> FALSE,
             roles |-> {}, effective |-> {}]

\* no PermissionChecker in use
PermIdle ==
    /\ current_user = NoUser
    /\ audit_log = <<>>
    /\ result = NoResult

\* the file that does not exist
NoFile == [exists |-> FALSE, tasks |-> <<>>]

NoBlock == [open |-> FALSE, backup_enabled |-> FALSE, existed |-> FALSE,
            entry |-> NoFile, created |-> {}]

NoTaskResult == [op |-> "none", outcome |-> "none", task_id |-> 0, saved |-> FALSE]

NoManager == [built |-> FALSE, after_save |-> FALSE, tasks |-> <<>>]

\* no TaskManager in use
TaskIdle ==
    /\ tasks = <<>>
    /\ ids_made = 0
    /\ storage_file = NoFile
    /\ backup_file = NoFile
    /\ block = NoBlock
    /\ task_result = NoTaskResult
    /\ new_manager = NoManager

NoSingResult == [op |-> "none", cls |-> "none", ref |-> 0, made |-> FALSE,
                 key |-> "none", value |-> "none"]

\* no singleton class called yet
SingIdle ==
    /\ instances = [cls \in {} |-> 0]
    /\ objects = <<>>
    /\ refs = <<>>
    /\ sing_result = NoSingResult

InitCache ==
    /\ PermIdle
    /\ TaskIdle
    /\ SingIdle
    /\ max_size \in 1..MaxSize
    /\ ttl \in {0, 1}
    /\ cache_dict = <<>>
    /\ cache_times = <<>>
    /\ now = 0
    /\ stack = <<>>
    /\ last = NoLast
    /\ track = FALSE
    /\ touched = <<>>

\* the cache built without a ttl (the default), observed with its touch order
InitCacheLru ==
    /\ PermIdle
    /\ TaskIdle
    /\ SingIdle
    /\ max_size \in 1..MaxSize
    /\ ttl = 0
    /\ cache_dict = <<>>
    /\ cache_times = <<>>
    /\ now = 0
    /\ stack = <<>>
    /\ last = NoLast
    /\ track = TRUE
    /\ touched = <<>>

\* wrapper(*args) up to the call of func: the key, the time read, the TTL check;
\* then a hit returns the cached value and a miss starts func.  Without a ttl
\* the time read is never used, and the model does not vary it.
Call(k, current_time) ==
    /\ Len(stack) < DepthLimit
    /\ current_time >= now
    /\ ttl = 0 => current_time = now
    /\ now' = current_time
    /\ LET d == DictAfterTtl(k, current_time)
           t == TimesAfterTtl(k, current_time)
       IN /\ cache_times' = t
          /\ IF k \in DictKeys(d)
             THEN /\ cache_dict' = DictAfterHit(d, k)
                  /\ stack' = stack
                  /\ touched' = Touch(touched, k)
                  /\ last' = [op |-> "hit", key |-> k, result |-> DictGet(d, k),
                              evicted |-> {}]
             ELSE /\ cache_dict' = d
                  /\ stack' = Append(stack, [key |-> k, current_time |-> current_time])
                  /\ touched' = touched
                  /\ last' = [op |-> "miss", key |-> k, result |-> 0,
                              evicted |-> {}]
    /\ UNCHANGED <<max_size, ttl, track>>
    /\ UNCHANGED <<permVars, taskVars, singVars>>

\* func returned v in the innermost running call: evict the oldest entry when
\* the dict is full, store the result, stamp it with the time read at entry.
Return(v) ==
    /\ stack # <<>>
    /\ LET f == stack[Len(stack)]
           k == f.key
           d == DictAfterEvict(cache_dict)
           t == TimesAfterEvict(cache_dict, cache_times)
       IN /\ cache_dict' = DictSet(d, k, v)
          /\ cache_times' = IF ttl # 0 THEN TimesSet(t, k, f.current_time) ELSE t
          /\ touched' = Touch(touched, k)
          /\ last' = [op |-> "store", key |-> k, result |-> v,
                      evicted |-> IF NeedsEviction(cache_dict)
                                  THEN {OldestKey(cache_dict)} ELSE {}]
    /\ stack' = SubSeq(stack, 1, Len(stack) - 1)
    /\ UNCHANGED <<max_size, ttl, now, track>>
    /\ UNCHANGED <<permVars, taskVars, singVars>>

\* func raised in the innermost running call: the wrapper stores nothing
FuncRaises ==
    /\ stack # <<>>
    /\ stack' = SubSeq(stack, 1, Len(stack) - 1)
    /\ last' = [op |-> "raise", key |-> stack[Len(stack)].key, result |-> 0,
                evicted |-> {}]
    /\ UNCHANGED <<max_size, ttl, cache_dict, cache_times, now, track, touched>>
    /\ UNCHANGED <<permVars, taskVars, singVars>>

\* wrapper.cache_clear()
CacheClear ==
    /\ cache_dict # <<>>
    /\ cache_dict' = <<>>
    /\ cache_times' = <<>>
    /\ touched' = <<>>
    /\ last' = [NoLast EXCEPT !.op = "clear"]
    /\ UNCHANGED <<max_size, ttl, now, stack, track>>
    /\ UNCHANGED <<permVars, taskVars, singVars>>

NextCache ==
    \/ \E k \in Keys, t \in Times : Call(k, t)
    \/ \E v \in Values : Return(v)
    \/ FuncRaises
    \/ CacheClear

SpecCache == InitCache /\ [][NextCache]_vars

SpecCacheLru == InitCacheLru /\ [][NextCache]_vars

\* ============================================================ permissions
\* src/day3/quest1.py: Role, User, PermissionRegistry, AuthContext and the
\* decorators of PermissionChecker.  A call of a decorated function is one
\* action: the wrapper runs to its end (the function executed, or an error
\* raised) without giving up control.  The caller is sequential, as in
\* comprehensive_test: it sets the user, calls, handles the value or the
\* exception (Handled), and goes on.
Roles == {"guest", "user", "moderator", "admin", "super_admin"}

NoPerm == "None"

\* permission strings a decorator asks for, and those users hold directly
AskedPermissions == {"edit_post", "admin_panel"}

DirectPermissions == {"edit_post"}

\* outcomes of custom_check(*args, **kwargs); "None" is no custom_check
CustomChecks == {"None", "true", "false", "raises"}

Ids == 1..NumIds

AuditLimit == 1000

UserRoleSets == {rs \in SUBSET Roles : Cardinality(rs) <= MaxUserRoles}

AskedRoleLists == {rs \in SUBSET Roles : Cardinality(rs) <= MaxAskedRoles}

Users == [id : Ids, roles : UserRoleSets, permissions : SUBSET DirectPermissions,
          is_active : BOOLEAN]

\* PermissionRegistry.role_hierarchy
RoleHierarchy(r) ==
    CASE r = "super_admin" -> {"admin", "moderator", "user", "guest"}
      [] r = "admin" -> {"moderator", "user", "guest"}
      [] r = "moderator" -> {"user", "guest"}
      [] r = "user" -> {"guest"}
      [] r = "guest" -> {}

\* PermissionRegistry.role_permissions
RolePermissions(r) ==
    CASE r = "guest" -> {"read_public"}
      [] r = "user" -> {"read_public", "read_user", "write_user"}
      [] r = "moderator" -> {"read_public", "read_user", "write_user", "moderate_content"}
      [] r = "admin" -> {"read_public", "read_user", "write_user", "moderate_content",
                         "admin_panel"}
      [] r = "super_admin" -> {"*"}

\* get_effective_permissions, first loop: for role in roles, all_roles is
\* updated with role_hierarchy[role]
RECURSIVE UpdateAllRoles(_, _)
UpdateAllRoles(todo, all_roles) ==
    IF todo = {} THEN all_roles
    ELSE LET role == CHOOSE r \in todo : TRUE
         IN UpdateAllRoles(todo \ {role}, all_roles \cup RoleHierarchy(role))

\* second loop: for role in all_roles, return {'*'} at the first role whose
\* permissions hold '*', else all_permissions is updated with them
RECURSIVE CollectPermissions(_, _)
CollectPermissions(todo, all_permissions) ==
    IF todo = {} THEN all_permissions
    ELSE LET role == CHOOSE r \in todo : TRUE
             perms == RolePermissions(role)
         IN IF "*" \in perms THEN {"*"}
            ELSE CollectPermissions(todo \ {role}, all_permissions \cup perms)

\* PermissionRegistry.get_effective_permissions
GetEffectivePermissionsNoWildcard(roles) ==
    UNION {RolePermissions(role) : role \in UpdateAllRoles(roles, roles)}

GetEffectivePermissions(roles) ==
    CollectPermissions(UpdateAllRoles(roles, roles), {})

\* User.has_permission, has_any_role, has_all_roles
HasPermission(user, permission) == permission \in user.permissions

HasAnyRole(user, roles) == roles \cap user.roles # {}

HasAllRoles(user, roles) == roles \subseteq user.roles

\* step 1 of the wrapper: the login and is_active checks
BasicCheckLoginOnly(user) ==
    IF user = NoUser THEN "PermissionError" ELSE "ok"

BasicCheck(user) ==
    IF user = NoUser THEN "PermissionError"
    ELSE IF ~user.is_active THEN "PermissionError"
    ELSE "ok"

\* step 2.1: the permission itself, or the permission through the roles
GrantedByPermission(user, permission) ==
    /\ permission # NoPerm
    /\ \/ HasPermission(user, permission)
       \/ LET effective_perms == GetEffectivePermissions(user.roles)
          IN "*" \in effective_perms \/ permission \in effective_perms

\* step 2.2: the roles, when 2.1 did not grant
GrantedByRoles(user, roles, require_all_roles) ==
    /\ roles # {}
    /\ IF require_all_roles THEN HasAllRoles(user, roles) ELSE HasAnyRole(user, roles)

\* step 2.3 calls self._extract_owner_id(*args, **kwargs); PermissionChecker
\* defines no such method, so the call raises AttributeError
ExtractOwnerId(owner_id) == [raised |-> TRUE, value |-> 0]

OwnerGranted(user, owner_id) == owner_id # 0 /\ user.id = owner_id

\* how wrapper(*args, **kwargs) of require_permission ends
WrapperOutcome(user, permission, roles, require_all_roles, allow_owner, custom_check, owner_id) ==
    IF BasicCheck(user) # "ok" THEN BasicCheck(user)
    ELSE LET g2 == \/ GrantedByPermission(user, permission)
                   \/ GrantedByRoles(user, roles, require_all_roles)
             owner == IF allow_owner /\ ~g2 THEN ExtractOwnerId(owner_id)
                      ELSE [raised |-> FALSE, value |-> 0]
             g3 == g2 \/ (allow_owner /\ ~g2 /\ OwnerGranted(user, owner.value))
             g4 == g3 \/ (custom_check # "None" /\ custom_check = "true")
             g5 == g4 \/ "super_admin" \in user.roles
             g6 == g5 \/ (permission = NoPerm /\ roles = {} /\ custom_check = "None"
                          /\ ~allow_owner)
         IN IF owner.raised THEN "AttributeError"
            ELSE IF g6 THEN "executed"
            ELSE "PermissionError"

\* _log_access_attempt: append, keep the last AuditLimit entries; of an entry
\* (timestamp, function, username, success, reason) the success flag is kept
LogAccessAttempt(log, success) ==
    LET appended == Append(log, [success |-> success])
    IN IF Len(appended) > AuditLimit
       THEN SubSeq(appended, Len(appended) - AuditLimit + 1, Len(appended))
       ELSE appended

\* the wrapper logs every end but an AttributeError, which leaves it at once
LogAfter(outcome) ==
    IF outcome = "AttributeError" THEN audit_log
    ELSE LogAccessAttempt(audit_log, outcome = "executed")

\* no cache in use
CacheIdle ==
    /\ max_size = 1
    /\ ttl = 0
    /\ cache_dict = <<>>
    /\ cache_times = <<>>
    /\ now = 0
    /\ stack = <<>>
    /\ last = NoLast
    /\ track = FALSE
    /\ touched = <<>>

InitPerm == CacheIdle /\ PermIdle /\ TaskIdle /\ SingIdle

\* AuthContext.set_current_user
SetCurrentUser(user) ==
    /\ result = NoResult
    /\ current_user' = user
    /\ UNCHANGED <<audit_log, result>>
    /\ UNCHANGED <<cacheVars, taskVars, singVars>>

\* AuthContext.clear_current_user
ClearCurrentUser ==
    /\ result = NoResult
    /\ current_user' = NoUser
    /\ UNCHANGED <<audit_log, result>>
    /\ UNCHANGED <<cacheVars, taskVars, singVars>>

\* a call of a function decorated with require_permission(...)
CallRequirePermission(permission, roles, require_all_roles, allow_owner, custom_check, owner_id) ==
    /\ result = NoResult
    /\ Len(audit_log) < MaxLog
    /\ LET outcome == WrapperOutcome(current_user, permission, roles,
                                     require_all_roles, allow_owner,
                                     custom_check, owner_id)
       IN /\ audit_log' = LogAfter(outcome)
          /\ result' = [NoResult EXCEPT !.call = "require_permission",
                            !.outcome = outcome, !.permission = permission,
                            !.allow_owner = allow_owner, !.owner_id = owner_id,
                            !.others = (roles # {} \/ custom_check # "None")]
    /\ UNCHANGED current_user
    /\ UNCHANGED <<cacheVars, taskVars, singVars>>

\* a call of a function decorated with require_role(*roles, require_all=...):
\* require_permission(roles=list(roles), require_all_roles=require_all)
CallRequireRole(roles, require_all) ==
    /\ result = NoResult
    /\ Len(audit_log) < MaxLog
    /\ LET outcome == WrapperOutcome(current_user, NoPerm, roles, require_all,
                                     FALSE, "None", 0)
       IN /\ audit_log' = LogAfter(outcome)
          /\ result' = [NoResult EXCEPT !.call = "require_role",
                            !.outcome = outcome, !.others = roles # {}]
    /\ UNCHANGED current_user
    /\ UNCHANGED <<cacheVars, taskVars, singVars>>

\* a call of a function decorated with require_login
CallRequireLogin ==
    /\ result = NoResult
    /\ Len(audit_log) < MaxLog
    /\ LET ok == current_user # NoUser /\ current_user.is_active
       IN /\ audit_log' = LogAccessAttempt(audit_log, ok)
          /\ result' = [NoResult EXCEPT !.call = "require_login",
                            !.outcome = IF ok THEN "executed" ELSE "PermissionError"]
    /\ UNCHANGED current_user
    /\ UNCHANGED <<cacheVars, taskVars, singVars>>

\* a call of checker.registry.get_effective_permissions(roles)
CallGetEffectivePermissions(roles) ==
    /\ result = NoResult
    /\ result' = [NoResult EXCEPT !.call = "get_effective_permissions",
                      !.outcome = "returned", !.roles = roles,
                      !.effective = GetEffectivePermissions(roles)]
    /\ UNCHANGED <<current_user, audit_log>>
    /\ UNCHANGED <<cacheVars, taskVars, singVars>>

\* the caller took the returned value, or caught the exception
Handled ==
    /\ result # NoResult
    /\ result' = NoResult
    /\ UNCHANGED <<current_user, audit_log>>
    /\ UNCHANGED <<cacheVars, taskVars, singVars>>

NextPerm ==
    \/ \E user \in Users : SetCurrentUser(user)
    \/ ClearCurrentUser
    \/ \E permission \in AskedPermissions \cup {NoPerm}, roles \in AskedRoleLists,
          require_all_roles \in BOOLEAN, allow_owner \in BOOLEAN,
          custom_check \in CustomChecks, owner_id \in Ids :
            CallRequirePermission(permission, roles, require_all_roles, allow_owner,
                                  custom_check, owner_id)
    \/ \E roles \in AskedRoleLists, require_all \in BOOLEAN :
            CallRequireRole(roles, require_all)
    \/ CallRequireLogin
    \/ \E roles \in SUBSET Roles : CallGetEffectivePermissions(roles)
    \/ Handled

SpecPerm == InitPerm /\ [][NextPerm]_vars

\* =========================================================== task manager
\* src/day7/task_manager_project.py: Task, validate_task_exists, auto_save,
\* DataStorageContext and TaskManager.  A TaskManager operation is one action:
\* the decorated method runs to its end, its automatic save included.  The
\* temporary file of save_tasks exists only inside a save, and the metadata
\* the file carries besides the tasks is never read back into a task.
Stamps == 0..MaxStamp

TaskIds == 1..MaxTasks

\* values: enum members, strings that name them, datetimes, their ISO strings
PriorityNames == {"LOW", "MEDIUM", "HIGH", "URGENT"}

TaskStatusValues == {"pending", "in_progress", "completed", "cancelled"}

PriorityMember(name) == [kind |-> "Priority", name |-> name]

TaskStatusMember(value) == [kind |-> "TaskStatus", name |-> value]

Str(name) == [kind |-> "str", name |-> name]

NoneValue == [kind |-> "None", t |-> 0]

Datetime(t) == [kind |-> "datetime", t |-> t]

\* datetime.isoformat and datetime.fromisoformat
IsoFormat(d) == [kind |-> "isostr", t |-> d.t]

FromIsoFormat(x) == [kind |-> "datetime", t |-> x.t]

\* str.upper and str.lower on the strings in use
Upper(x) ==
    CASE x = "high" -> "HIGH"
      [] x = "medium" -> "MEDIUM"
      [] OTHER -> x

Lower(x) ==
    CASE x = "COMPLETED" -> "completed"
      [] x = "PENDING" -> "pending"
      [] OTHER -> x

\* not title.strip()
Blank(title) == title \in {"", " "}

\* Task.__post_init__: the title check, then strings become enum members
PostInitNoTitleCheck(task) ==
    IF task.priority.kind = "str" /\ Upper(task.priority.name) \notin PriorityNames
    THEN [exc |-> "KeyError", task |-> task]
    ELSE IF task.status.kind = "str" /\ Lower(task.status.name) \notin TaskStatusValues
    THEN [exc |-> "ValueError", task |-> task]
    ELSE [exc |-> "none",
          task |-> [task EXCEPT
                      !.priority = IF @.kind = "str"
                                   THEN PriorityMember(Upper(@.name)) ELSE @,
                      !.status = IF @.kind = "str"
                                 THEN TaskStatusMember(Lower(@.name)) ELSE @]]

PostInit(task) ==
    IF Blank(task.title) THEN [exc |-> "ValueError", task |-> task]
    ELSE PostInitNoTitleCheck(task)

\* Task.to_dict needs enum members and datetimes
ToDictRaises(task) ==
    \/ task.priority.kind # "Priority"
    \/ task.status.kind # "TaskStatus"
    \/ task.created_at.kind # "datetime"
    \/ task.updated_at.kind # "datetime"
    \/ task.due_date.kind \notin {"None", "datetime"}

ToDict(task) ==
    [task EXCEPT !.priority = Str(@.name),
                 !.status = Str(@.name),
                 !.created_at = IsoFormat(@),
                 !.updated_at = IsoFormat(@),
                 !.due_date = IF @.kind # "None" THEN IsoFormat(@) ELSE @]

\* Task.from_dict: the time fields are parsed, then cls(**data) runs __post_init__
FromDict(data) ==
    PostInit([data EXCEPT !.created_at = FromIsoFormat(@),
                          !.updated_at = FromIsoFormat(@),
                          !.due_date = IF @.kind # "None" THEN FromIsoFormat(@) ELSE @])

\* DataStorageContext.__enter__: what the backup file is afterwards
ContextEnter(storage, backup, backup_enabled) ==
    IF backup_enabled /\ storage.exists THEN storage ELSE backup

\* DataStorageContext.__exit__: what the storage file is afterwards
ContextExit(storage, backup, backup_enabled, exc) ==
    IF exc /\ backup_enabled /\ backup.exists THEN backup ELSE storage

\* TaskManager.auto_save_enabled as __init__ sets it
AutoSaveEnabled == TRUE

\* save_tasks: its own DataStorageContext, the dump of every task, the move
SaveRaises(ts) == \E id \in DOMAIN ts : ToDictRaises(ts[id])

BackupAfterSave(storage, backup) == ContextEnter(storage, backup, TRUE)

FileAfterSave(ts, storage, backup) ==
    IF SaveRaises(ts)
    THEN ContextExit(storage, BackupAfterSave(storage, backup), TRUE, TRUE)
    ELSE [exists |-> TRUE, tasks |-> [id \in DOMAIN ts |-> ToDict(ts[id])]]

\* load_tasks: a task whose from_dict raises is skipped
LoadTasks(storage) ==
    IF ~storage.exists THEN <<>>
    ELSE LET good == {id \in DOMAIN storage.tasks :
                          FromDict(storage.tasks[id]).exc = "none"}
         IN [id \in good |-> FromDict(storage.tasks[id]).task]

\* the caller's block, told of an operation made inside it
BlockAfter(new_ids) ==
    IF block.open THEN [block EXCEPT !.created = @ \cup new_ids] ELSE NoBlock

\* the state after a method under @auto_save has changed the tasks to ts
AutoSaved(ts, op, task_id) ==
    /\ tasks' = ts
    /\ IF AutoSaveEnabled
       THEN /\ storage_file' = FileAfterSave(ts, storage_file, backup_file)
            /\ backup_file' = BackupAfterSave(storage_file, backup_file)
            /\ task_result' = [op |-> op, task_id |-> task_id, saved |-> TRUE,
                               outcome |-> IF SaveRaises(ts) THEN "AttributeError"
                                           ELSE "ok"]
       ELSE /\ UNCHANGED <<storage_file, backup_file>>
            /\ task_result' = [op |-> op, task_id |-> task_id, saved |-> FALSE,
                               outcome |-> "ok"]

\* validate_task_exists found no such task: ValueError before the method runs
TaskMissingKeyError(op, task_id) ==
    /\ task_result' = [op |-> op, task_id |-> task_id, saved |-> FALSE,
                       outcome |-> "KeyError"]
    /\ UNCHANGED <<tasks, ids_made, storage_file, backup_file>>

TaskMissing(op, task_id) ==
    /\ task_result' = [op |-> op, task_id |-> task_id, saved |-> FALSE,
                       outcome |-> "ValueError"]
    /\ UNCHANGED <<tasks, ids_made, storage_file, backup_file>>

InitTask == CacheIdle /\ PermIdle /\ TaskIdle /\ SingIdle

\* create_task: Task(...) with a fresh id, stored, then the automatic save
CreateTask(title, description, priority, due_date, tags, created_at, updated_at) ==
    /\ ids_made < MaxTasks
    /\ LET id == ids_made + 1
           made == PostInit([id |-> id, title |-> title, description |-> description,
                             priority |-> priority,
                             status |-> TaskStatusMember("pending"),
                             created_at |-> Datetime(created_at),
                             updated_at |-> Datetime(updated_at),
                             due_date |-> due_date, tags |-> tags])
       IN IF made.exc # "none"
          THEN /\ task_result' = [op |-> "create_task", task_id |-> 0,
                                  saved |-> FALSE, outcome |-> made.exc]
               /\ block' = BlockAfter({})
               /\ UNCHANGED <<tasks, ids_made, storage_file, backup_file>>
          ELSE /\ AutoSaved([x \in DOMAIN tasks \cup {id} |->
                                IF x = id THEN made.task ELSE tasks[x]],
                            "create_task", id)
               /\ ids_made' = id
               /\ block' = BlockAfter({id})
    /\ new_manager' = NoManager
    /\ UNCHANGED <<cacheVars, permVars, singVars>>

\* update_task: setattr for every key the task has, update_timestamp, save
UpdateTask(task_id, updates, updated_at) ==
    /\ IF task_id \notin DOMAIN tasks
       THEN TaskMissing("update_task", task_id)
       ELSE LET task == tasks[task_id]
                set == [k \in DOMAIN task |->
                           IF k \in DOMAIN updates THEN updates[k] ELSE task[k]]
                stamped == [set EXCEPT !.updated_at = Datetime(updated_at)]
            IN /\ AutoSaved([tasks EXCEPT ![task_id] = stamped], "update_task", task_id)
               /\ UNCHANGED ids_made
    /\ block' = BlockAfter({})
    /\ new_manager' = NoManager
    /\ UNCHANGED <<cacheVars, permVars, singVars>>

\* delete_task: self.tasks.pop(task_id), then the automatic save
DeleteTask(task_id) ==
    /\ IF task_id \notin DOMAIN tasks
       THEN TaskMissing("delete_task", task_id)
       ELSE /\ AutoSaved([x \in DOMAIN tasks \ {task_id} |-> tasks[x]],
                         "delete_task", task_id)
            /\ UNCHANGED ids_made
    /\ block' = BlockAfter({})
    /\ new_manager' = NoManager
    /\ UNCHANGED <<cacheVars, permVars, singVars>>

\* get_task: validate_task_exists, then the task
GetTask(task_id) ==
    /\ IF task_id \notin DOMAIN tasks
       THEN TaskMissing("get_task", task_id)
       ELSE /\ task_result' = [op |-> "get_task", task_id |-> task_id,
                               saved |-> FALSE, outcome |-> "ok"]
            /\ UNCHANGED <<tasks, ids_made, storage_file, backup_file>>
    /\ block' = BlockAfter({})
    /\ new_manager' = NoManager
    /\ UNCHANGED <<cacheVars, permVars, singVars>>

\* manager.save_tasks() called by the user
SaveTasks ==
    /\ storage_file' = FileAfterSave(tasks, storage_file, backup_file)
    /\ backup_file' = BackupAfterSave(storage_file, backup_file)
    /\ task_result' = [op |-> "save_tasks", task_id |-> 0, saved |-> TRUE,
                       outcome |-> IF SaveRaises(tasks) THEN "AttributeError" ELSE "ok"]
    /\ block' = BlockAfter({})
    /\ new_manager' = NoManager
    /\ UNCHANGED <<tasks, ids_made>>
    /\ UNCHANGED <<cacheVars, permVars, singVars>>

\* the caller enters `with DataStorageContext(storage_path, backup_enabled)`
EnterBlock(backup_enabled) ==
    /\ ~block.open
    /\ backup_file' = ContextEnter(storage_file, backup_file, backup_enabled)
    /\ block' = [open |-> TRUE, backup_enabled |-> backup_enabled,
                 existed |-> storage_file.exists, entry |-> storage_file,
                 created |-> {}]
    /\ task_result' = [NoTaskResult EXCEPT !.op = "enter"]
    /\ new_manager' = NoManager
    /\ UNCHANGED <<tasks, ids_made, storage_file>>
    /\ UNCHANGED <<cacheVars, permVars, singVars>>

\* the block ends, normally or by an exception raised inside it
ExitBlock(exc) ==
    /\ block.open
    /\ storage_file' = ContextExit(storage_file, backup_file, block.backup_enabled, exc)
    /\ block' = [block EXCEPT !.open = FALSE]
    /\ task_result' = [NoTaskResult EXCEPT !.op = IF exc THEN "exit_exception"
                                                  ELSE "exit"]
    /\ new_manager' = NoManager
    /\ UNCHANGED <<tasks, ids_made, backup_file>>
    /\ UNCHANGED <<cacheVars, permVars, singVars>>

\* TaskManager(storage_path): a second manager loads the file
NewManager ==
    /\ ~new_manager.built
    /\ new_manager' = [built |-> TRUE,
                       after_save |-> (task_result.saved /\ task_result.outcome = "ok"),
                       tasks |-> LoadTasks(storage_file)]
    /\ UNCHANGED <<tasks, ids_made, storage_file, backup_file, block, task_result>>
    /\ UNCHANGED <<cacheVars, permVars, singVars>>

\* the tasks the storage blocks are exercised with
PlainUpdates == {[status |-> TaskStatusMember("completed")]}

NextStorage ==
    \/ \E title \in {"a", ""} :
            CreateTask(title, "", PriorityMember("MEDIUM"), NoneValue, <<>>, 0, 0)
    \/ \E task_id \in TaskIds, updates \in PlainUpdates : UpdateTask(task_id, updates, 0)
    \/ \E task_id \in TaskIds : DeleteTask(task_id)
    \/ \E task_id \in TaskIds : GetTask(task_id)
    \/ SaveTasks
    \/ \E backup_enabled \in BOOLEAN : EnterBlock(backup_enabled)
    \/ \E exc \in BOOLEAN : ExitBlock(exc)

SpecStorage == InitTask /\ [][NextStorage]_vars

\* tasks in which every field varies
RichUpdates == {[title |-> ""], [title |-> "b"], [description |-> "d"],
                [priority |-> PriorityMember("HIGH")],
                [status |-> TaskStatusMember("completed")],
                [due_date |-> Datetime(0)], [tags |-> <<"x">>]}

NextRoundTrip ==
    \/ \E title \in {"a", ""}, priority \in {PriorityMember("MEDIUM"), PriorityMember("LOW")},
          due_date \in {NoneValue, Datetime(1)}, created_at \in Stamps,
          updated_at \in Stamps :
            /\ ids_made < MaxRichTasks
            /\ CreateTask(title, "", priority, due_date, <<>>, created_at, updated_at)
    \/ \E task_id \in 1..MaxRichTasks, updates \in RichUpdates, updated_at \in Stamps :
            UpdateTask(task_id, updates, updated_at)
    \/ \E task_id \in 1..MaxRichTasks : DeleteTask(task_id)
    \/ \E task_id \in 1..MaxRichTasks : GetTask(task_id)
    \/ SaveTasks
    \/ NewManager

SpecRoundTrip == InitTask /\ [][NextRoundTrip]_vars

\* ------------------------------------------------ part 4: SingletonMeta
\* The classes whose metaclass is SingletonMeta.  An object is its position in
\* objects (its identity); a reference is the position of the object it names.
Classes == {"Database", "Config"}

\* the values given to Config.set
ConfigValues == [debug |-> {"False", "True"}, port |-> {"5000", "8000"}]

\* __init__ of each class: the attributes of a new object
InitAttrs(cls) ==
    IF cls = "Database" THEN [connection |-> "MySQL Connection"]
    ELSE [debug |-> "False", host |-> "localhost", port |-> "5000"]

\* cls not in cls._instances
NeedsInstanceAlways(cls) == TRUE

NeedsInstance(cls) == cls \notin DOMAIN instances

\* Config.get through a reference
ConfigGetValue(ref, key) == objects[ref.obj].attrs[key]

InitSing == CacheIdle /\ PermIdle /\ TaskIdle /\ SingIdle

\* SingletonMeta.__call__: super().__call__ makes and initialises an object
\* only when the class has none; the stored one is returned to the caller
SingletonCall(cls) ==
    /\ Len(refs) < MaxCalls
    /\ LET made == NeedsInstance(cls)
           obj == IF made THEN Len(objects) + 1 ELSE instances[cls]
       IN /\ objects' = IF made
                        THEN Append(objects, [cls |-> cls, attrs |-> InitAttrs(cls)])
                        ELSE objects
          /\ instances' = IF made
                          THEN [c \in DOMAIN instances \cup {cls} |->
                                    IF c = cls THEN obj ELSE instances[c]]
                          ELSE instances
          /\ refs' = Append(refs, [cls |-> cls, obj |-> instances'[cls]])
          /\ sing_result' = [NoSingResult EXCEPT !.op = "call", !.cls = cls,
                                                 !.ref = Len(refs) + 1, !.made = made]
    /\ UNCHANGED <<cacheVars, permVars, taskVars>>

\* Config.set through the reference the caller got from its i-th call
ConfigSet(i, key, value) ==
    /\ i \in DOMAIN refs
    /\ refs[i].cls = "Config"
    /\ objects' = [objects EXCEPT ![refs[i].obj].attrs[key] = value]
    /\ sing_result' = [NoSingResult EXCEPT !.op = "set", !.cls = "Config", !.ref = i,
                                           !.key = key, !.value = value]
    /\ UNCHANGED <<instances, refs>>
    /\ UNCHANGED <<cacheVars, permVars, taskVars>>

\* Config.get through the reference the caller got from its i-th call
ConfigGet(i, key) ==
    /\ i \in DOMAIN refs
    /\ refs[i].cls = "Config"
    /\ sing_result' = [NoSingResult EXCEPT !.op = "get", !.cls = "Config", !.ref = i,
                                           !.key = key,
                                           !.value = ConfigGetValue(refs[i], key)]
    /\ UNCHANGED <<instances, objects, refs>>
    /\ UNCHANGED <<cacheVars, permVars, taskVars>>

NextSingleton ==
    \/ \E cls \in Classes : SingletonCall(cls)
    \/ \E i \in 1..MaxCalls, key \in DOMAIN ConfigValues :
           \E value \in ConfigValues[key] : ConfigSet(i, key, value)
    \/ \E i \in 1..MaxCalls, key \in DOMAIN ConfigValues : ConfigGet(i, key)

SpecSingleton == InitSing /\ [][NextSingleton]_vars

\* ------------------------------------------------------ claims on the cache
\* a Return step: the innermost call's func returned and its result is stored
StoreStep == last'.op = "store" /\ Len(stack') < Len(stack)

StoredKey == stack[Len(stack)].key

Min(a, b) == IF a < b THEN a ELSE b

Reverse(s) == [i \in DOMAIN s |-> s[Len(s) + 1 - i]]

PosIn(s, k) == CHOOSE i \in DOMAIN s : s[i] = k

\* the stored key touched longest ago: the entry an LRU policy removes
LruKey(d, s) ==
    CHOOSE k \in DictKeys(d) : \A j \in DictKeys(d) : PosIn(s, k) >= PosIn(s, j)

\* C1: the number of cached entries never exceeds max_size (max_size >= 1),
\* whatever calls, nested calls, expiries and clears came before.
C1_CapacityBound == Len(cache_dict) <= max_size

C1_Witness ==
    /\ last.op = "store"
    /\ last.evicted # {}
    /\ Len(cache_dict) = max_size

\* C2: every store of a new key into a full cache removes exactly one entry,
\* the least recently used one, and leaves the cache full (storing max_size + 1
\* distinct keys in a row is the case where that entry is the first key).
C2_EvictsLeastRecentlyUsed ==
    [][(StoreStep /\ StoredKey \notin DictKeys(cache_dict)
                  /\ Len(cache_dict) = max_size)
        => /\ DictKeys(cache_dict) \ DictKeys(cache_dict') = {LruKey(cache_dict, touched)}
           /\ Len(cache_dict') = max_size]_vars

\* C3: a hit makes its key the most recently used one, so with another entry
\* stored the key that was hit is not the next entry to be evicted.
C3_HitRefreshesRecency ==
    (last.op = "hit" /\ Len(cache_dict) >= 2) => OldestKey(cache_dict) # last.key

\* C4: a store under a key that is still present updates the value in place:
\* the key then maps to the new value, the set and number of stored keys are
\* unchanged (nothing is evicted) and the key is the most recent entry.
C4_UpdateInPlace ==
    [][(StoreStep /\ StoredKey \in DictKeys(cache_dict))
        => /\ StoredKey \in DictKeys(cache_dict')
           /\ DictGet(cache_dict', StoredKey) = last'.result
           /\ DictKeys(cache_dict') = DictKeys(cache_dict)
           /\ Len(cache_dict') = Len(cache_dict)
           /\ cache_dict'[Len(cache_dict')].key = StoredKey]_vars

\* C5: between calls the stored keys, read from the most recent end, are the
\* (at most max_size) most recently touched distinct keys in order of
\* decreasing last touch, a touch being a store or a hit.
C5_RecencyIsReferenceModel ==
    stack = <<>> =>
        Reverse(KeyList(cache_dict)) = SubSeq(touched, 1, Min(max_size, Len(touched)))

ActiveUser == current_user # NoUser /\ current_user.is_active

\* the last call was one of a decorated function
DecoratedCall == result.call \in {"require_permission", "require_role", "require_login"}

\* C8: a call of a function wrapped by require_permission, require_role or
\* require_login made with no current user, or with a current user whose
\* is_active is False, never executes the function: it raises
\* PermissionError, whatever the decorator's arguments.
C8_NoUserNeverExecutes ==
    (DecoratedCall /\ ~ActiveUser) => result.outcome = "PermissionError"

C8_Witness ==
    /\ result.call = "require_permission"
    /\ current_user # NoUser
    /\ ~current_user.is_active
    /\ "super_admin" \in current_user.roles
    /\ result.permission = "edit_post"
    /\ result.outcome = "PermissionError"

\* C9: under require_permission(permission=P, allow_owner=True) an active user
\* who lacks P is granted, and the function runs, when the user's id is the
\* owner id of the resource passed to the call; an active non-owner lacking P
\* (and not SUPER_ADMIN) is rejected with PermissionError.
C9_OwnerGrantedOthersRejected ==
    (/\ result.call = "require_permission"
     /\ result.permission # NoPerm
     /\ result.allow_owner
     /\ ~result.others
     /\ ActiveUser
     /\ ~GrantedByPermission(current_user, result.permission))
        => IF current_user.id = result.owner_id
           THEN result.outcome = "executed"
           ELSE "super_admin" \notin current_user.roles
                    => result.outcome = "PermissionError"

\* C10: an active user holding SUPER_ADMIN is always granted: whatever the
\* permission, roles, require_all_roles, allow_owner and custom_check, the
\* function is executed and the checker raises no error.
C10_SuperAdminAlwaysGranted ==
    (DecoratedCall /\ ActiveUser /\ "super_admin" \in current_user.roles)
        => result.outcome = "executed"

\* the permissions the roles give: those of every given role and of every role
\* role_hierarchy lists for it, or '*' alone when one of them has '*'
InheritedRoles(roles) == roles \cup UNION {RoleHierarchy(r) : r \in roles}

RolesGive(roles) ==
    IF \E r \in InheritedRoles(roles) : "*" \in RolePermissions(r)
    THEN {"*"}
    ELSE UNION {RolePermissions(r) : r \in InheritedRoles(roles)}

\* C11: get_effective_permissions(roles) is the union of the default
\* permissions of every given role and of every role it inherits in
\* role_hierarchy, or {'*'} when one of them has '*'; and a call under
\* require_permission(permission=P) with no other condition executes for an
\* active user exactly when P is among the user's own permissions, or among
\* those effective permissions, or they hold '*' (PermissionError otherwise).
C11_PermissionInheritance ==
    /\ result.call = "get_effective_permissions"
            => result.effective = RolesGive(result.roles)
    /\ (/\ result.call = "require_permission"
        /\ result.permission # NoPerm
        /\ ~result.allow_owner
        /\ ~result.others
        /\ ActiveUser)
            => IF \/ result.permission \in current_user.permissions
                  \/ result.permission \in RolesGive(current_user.roles)
                  \/ "*" \in RolesGive(current_user.roles)
               THEN result.outcome = "executed"
               ELSE result.outcome = "PermissionError"

C11_Witness ==
    /\ result.call = "get_effective_permissions"
    /\ result.roles = {"super_admin", "guest"}
    /\ result.effective = {"*"}

\* --------------------------------------------- claims on the task manager
\* the caller's block has just ended by an exception
RolledBack == task_result.op = "exit_exception" /\ block.backup_enabled /\ block.existed

\* C12: when a DataStorageContext(backup_enabled=True) block over an existing
\* storage file exits with an exception, the storage file has exactly the
\* content it had when the block was entered, however many save_tasks calls
\* ran inside the block.
C12_ExceptionRestoresEntryContent ==
    RolledBack => storage_file = block.entry

\* C13: a task created through create_task inside a DataStorageContext block
\* that exits with an exception is rolled back: it is neither in the storage
\* file nor in the manager's task table, and memory and file hold the same
\* set of tasks.
C13_CreatedTaskRolledBack ==
    (RolledBack /\ block.created # {})
        => /\ \A id \in block.created :
                  id \notin DOMAIN storage_file.tasks /\ id \notin DOMAIN tasks
           /\ DOMAIN tasks = DOMAIN storage_file.tasks

\* C14: update_task, delete_task and get_task called with a task id that is
\* not in the manager raise ValueError, leave the task table unchanged and
\* call no save_tasks (the files stay as they are).
C14_MissingTaskRejected ==
    [][(/\ task_result'.op \in {"update_task", "delete_task", "get_task"}
        /\ task_result'.task_id \notin DOMAIN tasks)
        => /\ task_result'.outcome = "ValueError"
           /\ tasks' = tasks
           /\ ~task_result'.saved
           /\ storage_file' = storage_file
           /\ backup_file' = backup_file]_vars

C14_Witness ==
    /\ task_result.op = "update_task"
    /\ task_result.outcome = "ValueError"
    /\ task_result.task_id \notin DOMAIN tasks
    /\ tasks # <<>>
    /\ storage_file.exists

\* C15: after save_tasks, a new TaskManager on the same storage path holds
\* exactly the same task ids, and each task has the same title, description,
\* priority, status, tags, due_date, created_at and updated_at as the saved one.
C15_PersistenceRoundTrip ==
    (new_manager.built /\ new_manager.after_save) => new_manager.tasks = tasks

\* ---------------------------------------------- claims on the singletons
\* C16: with SingletonMeta as metaclass every constructor call of a class
\* returns the same object, __init__ runs only on the first call (a later call
\* makes nothing and leaves the object's state as it is), a value set through
\* one reference is read through every reference of the class, and two
\* different singleton classes never share an instance.
C16_OneInstancePerClass ==
    /\ [](\A i, j \in DOMAIN refs :
              (refs[i].cls = refs[j].cls) <=> (refs[i].obj = refs[j].obj))
    /\ []((sing_result.op = "call" /\ sing_result.made)
              => \A i \in 1..(sing_result.ref - 1) : refs[i].cls # sing_result.cls)
    /\ []((sing_result.op = "set")
              => \A j \in DOMAIN refs :
                     refs[j].cls = "Config"
                         => ConfigGetValue(refs[j], sing_result.key) = sing_result.value)
    /\ [][(sing_result'.op = "call" /\ sing_result'.cls \in DOMAIN instances)
              => /\ objects' = objects
                 /\ instances' = instances
                 /\ ~sing_result'.made]_vars

C16_Witness ==
    /\ sing_result.op = "call"
    /\ ~sing_result.made
    /\ sing_result.cls = "Config"
    /\ \E i, j \in DOMAIN refs : i # j /\ refs[i].cls = "Config" /\ refs[j].cls = "Config"
    /\ \E i \in DOMAIN refs : refs[i].cls = "Database"
    /\ ConfigGetValue(refs[sing_result.ref], "debug") = "True"

====
